---------------------------- MODULE Spec2Model ----------------------------
(***************************************************************************)
(* glint: the shader-extraction-and-render pipeline of the Home page.      *)
(*                                                                         *)
(* A text (a JavaScript string) is a sequence of units.  A unit is one     *)
(* character (a backtick, written "tick"; a blank " "; a line end "\n") or *)
(* an indivisible run of characters that the code only ever tests as a     *)
(* whole: "void main()", "gl_FragColor", "glsl", "frag", "ment", and any   *)
(* other word of prose.  "fragment" is the two units "frag" "ment", so     *)
(* that the regular expression's alternatives frag and fragment can be     *)
(* told apart.  A fence is three consecutive "tick" units.                 *)
(***************************************************************************)
EXTENDS Integers, Sequences, FiniteSets, TLC

\* ------------------------------------------------------------------ bounds
MaxAtoms == 5
MaxPromptLen == 1
MaxMessages == 4
MaxClock == 1
MaxFrameMessages == 2
MaxBodyLen == 2

\* ----------------------------------------------------------------- strings
\* JavaScript's null / undefined, told apart from every text (also from '').
Null == <<"null">>

Min(S) == CHOOSE x \in S : \A y \in S : x <= y
Max(S) == CHOOSE x \in S : \A y \in S : x >= y

\* The white space of the regular expression's \s and of String.trim.
IsSpace(u) == u \in {" ", "\n"}

\* The /i flag: letters are compared folded to lower case.
Lower(u) ==
    CASE u = "GLSL" -> "glsl"
      [] u = "FRAG" -> "frag"
      [] u = "MENT" -> "ment"
      [] OTHER -> u

\* trimStart in place of trim: only the leading white space goes.
TrimStart(s) ==
    LET solid == {i \in 1..Len(s) : ~IsSpace(s[i])}
    IN  IF solid = {} THEN <<>> ELSE SubSeq(s, Min(solid), Len(s))

\* String.prototype.trim: drop leading and trailing white space.
Trim(s) ==
    LET solid == {i \in 1..Len(s) : ~IsSpace(s[i])}
    IN  IF solid = {} THEN <<>> ELSE SubSeq(s, Min(solid), Max(solid))

\* String.prototype.includes for a marker that is one unit.
Includes(s, marker) == \E i \in 1..Len(s) : s[i] = marker

\* A value used as a condition: null, undefined and '' are falsy.
Truthy(v) == v # Null /\ v # <<>>

\* --------------------------------------------------- the fenced-block regex
\* /```(?:glsl|frag|fragment)?\s*([\s\S]*?)```/i

Fence == <<"tick", "tick", "tick">>

\* The literal ``` at position i.
MatchFence(s, i) == i + 2 <= Len(s) /\ \A k \in 0..2 : s[i + k] = "tick"

\* The alternatives of the optional group in the order the matcher tries
\* them: the group's alternatives left to right, then (greedy ?) nothing.
TagAlternatives == << <<"glsl">>, <<"frag">>, <<"frag", "ment">>, <<>> >>

MatchesLiteral(s, k, lit) ==
    /\ k + Len(lit) - 1 <= Len(s)
    /\ \A j \in 1..Len(lit) : Lower(s[k + j - 1]) = lit[j]

\* Greedy \s*: the first position from k on that holds no white space.  What
\* follows \s* can only end at a ```, which never starts inside white space,
\* so giving white space back never turns a failure into a match.
SkipSpace(s, k) ==
    Min({m \in k..(Len(s) + 1) : m = Len(s) + 1 \/ ~IsSpace(s[m])})

\* Where the lazy group ([\s\S]*?) may stop: the ``` at or after m.
ClosingFences(s, m) == {n \in m..Len(s) : MatchFence(s, n)}

\* The alternatives with which the whole expression matches from start i.
AlternativesAt(s, i) ==
    {a \in 1..Len(TagAlternatives) :
        /\ MatchesLiteral(s, i + 3, TagAlternatives[a])
        /\ ClosingFences(s, SkipSpace(s, i + 3 + Len(TagAlternatives[a]))) # {}}

MatchesAt(s, i) == MatchFence(s, i) /\ AlternativesAt(s, i) # {}

\* match[1] of the match starting at i: the first alternative that lets the
\* rest match wins; the lazy group stops at the first closing ```.
CaptureAt(s, i) ==
    LET a == Min(AlternativesAt(s, i))
        m == SkipSpace(s, i + 3 + Len(TagAlternatives[a]))
    IN  SubSeq(s, m, Min(ClosingFences(s, m)) - 1)

\* response.match(codeBlockRegex): the leftmost start that matches, or null.
Starts(s) == {i \in 1..Len(s) : MatchesAt(s, i)}

EntryMarker == "void main()"
\* The output variable of newer GLSL in place of gl_FragColor.
OutputMarkerModern == "fragColor"
OutputMarker == "gl_FragColor"

\* || in place of && between the two includes.
HasMarkersEither(response) ==
    Includes(response, EntryMarker) \/ Includes(response, OutputMarker)
HasMarkers(response) ==
    Includes(response, EntryMarker) /\ Includes(response, OutputMarker)

\* return response in place of return response.trim().
BareBodyUntrimmed(response) == response
BareBody(response) == Trim(response)

extractShaderCode(response) ==
    IF Starts(response) # {}
    THEN Trim(CaptureAt(response, Min(Starts(response))))
    ELSE IF HasMarkers(response)
         THEN BareBody(response)
         ELSE Null

\* ------------------------------------------------------------ input texts
Atoms == {Fence, <<"tick">>, <<"\n">>, <<"frag">>, <<"ment">>,
          <<EntryMarker>>, <<OutputMarker>>}

RECURSIVE TextsUpTo(_, _)
TextsUpTo(atoms, n) ==
    IF n = 0 THEN {<<>>}
    ELSE LET shorter == TextsUpTo(atoms, n - 1)
         IN  shorter \cup {a \o t : a \in atoms, t \in shorter}

\* The documented scenarios, and the tags and letter cases the enumeration
\* omits.
ScenarioFenced ==
    <<"x", " ">> \o Fence \o <<"glsl", "\n", EntryMarker, "x", "\n">> \o Fence
ScenarioBare == <<EntryMarker, " ", "{", " ", "frag", "Color", " ", "x", " ", "}">>
ScenarioRefusal == <<"x", " ", "x">>
\* ScenarioBare with the output variable the page asks the model to write.
ScenarioBareGl ==
    <<"void main()", " ", "{", " ", "gl_FragColor", " ", "x", " ", "}">>
Scenarios ==
    {ScenarioFenced, ScenarioBare, ScenarioBareGl, ScenarioRefusal,
     Fence \o <<"GLSL", " ", "x">> \o Fence,
     Fence \o <<"FRAG", "\n", "x">> \o Fence,
     Fence \o <<"Frag", "MENT", "\n", "x">> \o Fence,
     Fence \o <<"glsl", "x">> \o Fence}

Texts == TextsUpTo(Atoms, MaxAtoms) \cup Scenarios

\* A fence on its own lines around a candidate.
Wrap(c) == Fence \o <<"\n">> \o c \o <<"\n">> \o Fence

\* --------------------------------------------------------------- the page
\* ShaderScene hands fragmentShader to the shading runtime as it is.  Texts
\* the runtime is sure to reject: a fragment shader with no main() entry
\* point, and one holding a backtick, which is no character of GLSL.
FailsToCompile(fragmentShader) ==
    ~Includes(fragmentShader, EntryMarker) \/ Includes(fragmentShader, "tick")

DEFAULT_FRAGMENT_SHADER ==
    <<"\n", "uniform", "\n", EntryMarker, "\n", OutputMarker, "\n">>

\* The replies to POST /api/chat the page is run against: the documented
\* scenarios, an empty block, a bare body, a reply cut off inside its block,
\* a lone marker, and a block without an entry point.
Responses ==
    {ScenarioFenced, ScenarioBare, ScenarioRefusal,
     Fence \o Fence,
     <<"\n", EntryMarker, " ", OutputMarker>>,
     Fence \o <<"glsl", "\n", EntryMarker, OutputMarker>>,
     <<OutputMarker, "x">>,
     Fence \o <<"x">> \o Fence}

\* What one request ends in.  "network": fetch rejects; "unparseable":
\* res.json() rejects; "status": res.ok is false and body is data.error (Null
\* when the body has no error field); "ok": res.ok is true and body is
\* data.response (Null when the body has no response field).
Outcomes ==
    {[kind |-> "network", body |-> Null], [kind |-> "unparseable", body |-> Null]}
    \cup [kind : {"status"},
          body : {Null, <<"Failed to get response from Claude">>}]
    \cup [kind : {"ok"}, body : Responses \cup {Null}]

\* The message of the error the try block throws for an outcome, Null when
\* it throws nothing.  Everything thrown is an Error, so the catch block's
\* 'Failed to get response' for other values is never used.
\* new Error(data.error), without the fallback text.
StatusErrorNoFallback(data_error) ==
    IF data_error = Null THEN <<>> ELSE data_error
StatusError(data_error) ==
    IF Truthy(data_error) THEN data_error ELSE <<"Something went wrong">>

Thrown(outcome) ==
    CASE outcome.kind = "network" -> <<"Failed to fetch">>
      [] outcome.kind = "unparseable" -> <<"Unexpected token in JSON">>
      [] outcome.kind = "status" -> StatusError(outcome.body)
      [] outcome.kind = "ok" ->
            IF outcome.body = Null
            THEN <<"Cannot read properties of undefined">>
            ELSE Null

Prompts == TextsUpTo({<<" ">>, <<"a">>}, MaxPromptLen)

\* Files offered to the upload input; Null: the dialog was cancelled.
Files == {Null, <<"a", ".gltf">>, <<"a", ".txt">>}
EndsWith(name, ext) == Len(name) > 0 /\ name[Len(name)] = ext

UserMessage(content) ==
    [role |-> "user", content |-> content, shaderCode |-> Null]
AssistantMessage(content, code) ==
    [role |-> "assistant", content |-> content, shaderCode |-> code]

FoundText == <<"Here's your shader">>
MissText == <<"I couldn't generate a valid shader">>

VARIABLES
    prompt, messages, shaderCode, displayedShader, isLoading, error,
    view, mode, modelUrl, modelName,
    renderedLoading,  \* isLoading as of the last committed render: what the
                      \* handlers' closures and the disabled attributes hold
    outstanding,      \* requests to /api/chat issued and not yet settled
    ignored,          \* the event handled last was a submit that
                      \* handleSubmit returned from early
    issued,           \* calls of fetch('/api/chat') made so far
    movedOn,          \* while the request that is outstanding, or that
                      \* settled in the last event, was outstanding, the user
                      \* switched to model mode or to the code view, or
                      \* uploaded a model
    uTime, uResolution,  \* the uniforms of the mounted shaderMaterial
    clock,            \* state.clock.elapsedTime of the shader canvas
    size,             \* useThree().size, the viewport
    request, stage, calls, reply,  \* POST /api/chat: see the route handler
    input,            \* the response text the reply handled last gave to
                      \* extractShaderCode, Null when it gave none
    candidate,        \* what extractShaderCode returned for it, Pending
                      \* when it returned nothing
    again             \* the extractor's answer to the wrapped candidate

Pending == <<"pending">>

state == <<prompt, messages, shaderCode, displayedShader, isLoading, error,
           view, mode, modelUrl, modelName>>
pvars == <<prompt, messages, shaderCode, displayedShader, isLoading, error,
           view, mode, modelUrl, modelName, renderedLoading, outstanding,
           ignored, issued, movedOn>>
evars == <<input, candidate, again>>
fvars == <<uTime, uResolution, clock, size>>
svars == <<request, stage, calls, reply>>
vars == <<pvars, evars, fvars, svars>>

\* useState's initial values.
Mounted ==
    /\ prompt = <<>>
    /\ messages = <<>>
    /\ shaderCode = DEFAULT_FRAGMENT_SHADER
    /\ displayedShader = DEFAULT_FRAGMENT_SHADER
    /\ isLoading = FALSE
    /\ error = <<>>
    /\ view = "visual"
    /\ mode = "model"
    /\ modelUrl = <<"/robot", ".glb">>
    /\ modelName = <<"robot", ".glb">>
    /\ renderedLoading = FALSE
    /\ outstanding = 0
    /\ ignored = FALSE
    /\ issued = 0
    /\ movedOn = FALSE

\* The uniforms prop of shaderMaterial: uTime 0, uResolution (1, 1).
InitialResolution == <<1, 1>>
Sizes == {<<1, 1>>, <<2, 1>>}

\* The shader canvas is rendered in shader mode, visual view.
CanvasMounted == mode = "shader" /\ view = "visual"

\* No shader canvas yet: no clock and no material.
NoFrames ==
    /\ uTime = 0
    /\ uResolution = InitialResolution
    /\ clock = 0

\* No request at the route handler.
NoBody == [kind |-> "none", prompt |-> Null]
NoReply == [status |-> 0, body |-> [none |-> TRUE]]
NoRequest ==
    /\ request = NoBody
    /\ stage = "idle"
    /\ calls = 0
    /\ reply = NoReply

Init ==
    /\ Mounted
    /\ input = Null
    /\ candidate = Pending
    /\ again = Pending
    /\ NoFrames
    /\ size = InitialResolution
    /\ NoRequest

\* What a step of the page does to the shader canvas: leaving shader mode or
\* the visual view unmounts it, entering them mounts a new canvas (a new
\* clock) with a new material, and a new displayedShader is a new key, so a
\* new material with the uniforms of the uniforms prop.
FrameAfter ==
    /\ size' = size
    /\ IF ~CanvasMounted' \/ ~CanvasMounted
       THEN /\ uTime' = 0
            /\ uResolution' = InitialResolution
            /\ clock' = 0
       ELSE IF displayedShader' # displayedShader
       THEN /\ uTime' = 0
            /\ uResolution' = InitialResolution
            /\ clock' = clock
       ELSE UNCHANGED <<uTime, uResolution, clock>>

\* The textarea's onChange; the textarea is disabled while loading.
handleTextareaChange ==
    /\ ~renderedLoading
    /\ \E value \in Prompts : prompt' = value
    /\ ignored' = FALSE
    /\ movedOn' = FALSE
    /\ UNCHANGED <<messages, shaderCode, displayedShader, isLoading, error,
                   view, mode, modelUrl, modelName, renderedLoading,
                   outstanding, issued, evars, fvars, svars>>

\* The early return of handleSubmit, on the values its closure holds.
\* !prompt in place of !prompt.trim().
IgnoresUntrimmed == prompt = <<>> \/ renderedLoading
Ignores == Trim(prompt) = <<>> \/ renderedLoading

\* setIsLoading(true) left out.
NotLoadingOnSubmit == FALSE
LoadingOnSubmit == TRUE

\* handleSubmit up to its first await: the early return, or the user
\* message, the state updates and the fetch.  The event is a discrete one,
\* so React commits the updates before the next event is dispatched.
handleSubmit ==
    IF Ignores
    THEN /\ movedOn' = (outstanding > 0 /\ movedOn)
         /\ UNCHANGED <<state, renderedLoading, outstanding, issued>>
    ELSE /\ Len(messages) + 2 <= MaxMessages
         /\ issued' = issued + 1
         /\ movedOn' = FALSE
         /\ messages' = Append(messages, UserMessage(prompt))
         /\ prompt' = <<>>
         /\ isLoading' = LoadingOnSubmit
         /\ error' = <<>>
         /\ outstanding' = outstanding + 1
         /\ renderedLoading' = isLoading'
         /\ UNCHANGED <<shaderCode, displayedShader, view, mode, modelUrl,
                        modelName>>

\* The form's onSubmit, by the submit button, which is disabled while
\* loading or while the prompt is blank.
FormSubmit ==
    /\ ~(renderedLoading \/ Trim(prompt) = <<>>)
    /\ handleSubmit
    /\ ignored' = Ignores
    /\ UNCHANGED <<evars, fvars, svars>>

\* handleKeyDown for Enter without Shift, in the enabled textarea.
handleKeyDown ==
    /\ ~renderedLoading
    /\ handleSubmit
    /\ ignored' = Ignores
    /\ UNCHANGED <<evars, fvars, svars>>

\* The install guarded by the page still showing the shader canvas.
InstallsIfShown(extractedCode) ==
    Truthy(extractedCode) /\ mode = "shader" /\ view = "visual"

\* if (extractedCode) { setShaderCode; setDisplayedShader; ... }
\* extractedCode !== null in place of the truthiness test.
InstallsNonNull(extractedCode) == extractedCode # Null
Installs(extractedCode) == Truthy(extractedCode)

\* setShaderCode(data.response) in place of setShaderCode(extractedCode).
CodeShownRaw(response, extractedCode) == response
CodeShown(response, extractedCode) == extractedCode

\* The catch block fetching once more.
RetriesOnce == TRUE
\* The catch block reports the failure and does not fetch again.
RetriesOnFailure == FALSE
\* The requests the catch block issues.
RequestsOnFailure == IF RetriesOnFailure THEN 1 ELSE 0

\* The finally block without its setIsLoading(false).
StillLoadingAfterSettle == TRUE
LoadingAfterSettle == FALSE

\* handleSubmit from the settling of its fetch to its end: the try block
\* after the await, the catch block and the finally block.
Settle(outcome) ==
    /\ outstanding > 0
    /\ ignored' = FALSE
    /\ movedOn' = movedOn
    /\ isLoading' = LoadingAfterSettle
    /\ IF Thrown(outcome) # Null
       THEN /\ outstanding' = outstanding - 1 + RequestsOnFailure
            /\ issued' = issued + RequestsOnFailure
            /\ messages' = Append(messages,
                    AssistantMessage(<<"Error: ">> \o Thrown(outcome), Null))
            /\ error' = Thrown(outcome)
            /\ input' = Null
            /\ candidate' = Pending
            /\ again' = again
            /\ UNCHANGED <<shaderCode, displayedShader, mode, view>>
       ELSE LET extractedCode == extractShaderCode(outcome.body)
            IN  /\ outstanding' = outstanding - 1
                /\ issued' = issued
                /\ input' = outcome.body
                /\ candidate' = extractedCode
                /\ again' = again
                /\ messages' = Append(messages,
                        AssistantMessage(
                            IF Truthy(extractedCode) THEN FoundText ELSE MissText,
                            IF Truthy(extractedCode) THEN extractedCode ELSE Null))
                /\ IF Installs(extractedCode)
                   THEN /\ shaderCode' = CodeShown(outcome.body, extractedCode)
                        /\ displayedShader' = extractedCode
                        /\ mode' = "shader"
                        /\ view' = "visual"
                   ELSE UNCHANGED <<shaderCode, displayedShader, mode, view>>
                /\ UNCHANGED error
    /\ FrameAfter
    /\ UNCHANGED <<prompt, modelUrl, modelName, renderedLoading, svars>>

Settles == \E outcome \in Outcomes : Settle(outcome)

\* React commits the updates made after an await in a later render.
Render ==
    /\ renderedLoading # isLoading
    /\ renderedLoading' = isLoading
    /\ UNCHANGED <<state, outstanding, ignored, issued, movedOn, evars,
                   fvars, svars>>

\* ModeToggle's buttons.
setMode ==
    /\ \E m \in {"shader", "model"} :
          /\ mode' = m
          /\ movedOn' = (outstanding > 0 /\ (movedOn \/ m = "model"))
    /\ ignored' = FALSE
    /\ UNCHANGED <<prompt, messages, shaderCode, displayedShader, isLoading,
                   error, view, modelUrl, modelName, renderedLoading,
                   outstanding, issued, evars, svars>>
    /\ FrameAfter

\* ViewToggle's buttons, rendered in shader mode.
setView ==
    /\ mode = "shader"
    /\ \E v \in {"visual", "code"} :
          /\ view' = v
          /\ movedOn' = (outstanding > 0 /\ (movedOn \/ v = "code"))
    /\ ignored' = FALSE
    /\ UNCHANGED <<prompt, messages, shaderCode, displayedShader, isLoading,
                   error, mode, modelUrl, modelName, renderedLoading,
                   outstanding, issued, evars, svars>>
    /\ FrameAfter

\* The file input's onChange, rendered in model mode.
handleFileUpload ==
    /\ mode = "model"
    /\ ignored' = FALSE
    /\ \E file \in Files :
          IF file = Null
          THEN /\ movedOn' = (outstanding > 0 /\ movedOn)
               /\ UNCHANGED <<modelUrl, modelName, mode, view, error>>
          ELSE IF ~EndsWith(file, ".glb") /\ ~EndsWith(file, ".gltf")
          THEN /\ error' = <<"Please upload a .glb or .gltf file">>
               /\ movedOn' = (outstanding > 0 /\ movedOn)
               /\ UNCHANGED <<modelUrl, modelName, mode, view>>
          ELSE /\ modelUrl' = <<"blob:">> \o file
               /\ modelName' = file
               /\ mode' = "model"
               /\ view' = "visual"
               /\ error' = <<>>
               /\ movedOn' = (outstanding > 0)
    /\ UNCHANGED <<prompt, messages, shaderCode, displayedShader, isLoading,
                   renderedLoading, outstanding, issued, evars, svars>>
    /\ FrameAfter

Next ==
    \/ handleTextareaChange
    \/ FormSubmit
    \/ handleKeyDown
    \/ Settles
    \/ Render
    \/ setMode
    \/ setView
    \/ handleFileUpload

Spec == Init /\ [][Next]_vars

\* The page when every issued request settles and React commits every
\* pending render.
LiveSpec == Spec /\ WF_vars(Settles) /\ WF_vars(Render)

\* ------------------------------------------------ the frame loop
\* useFrame's callback writing only when no request is outstanding.
FrameRunsWhenIdle == CanvasMounted /\ ~isLoading
\* useFrame's callback runs on every frame of the mounted canvas and writes
\* when matRef.current is set, which it is while the material is mounted.
FrameRuns == CanvasMounted

\* One frame: the clock has advanced, and the callback of useFrame copies
\* the clock and the viewport size into the uniforms.
Tick ==
    /\ FrameRuns
    /\ \E t \in clock..MaxClock : clock' = t
    /\ uTime' = clock'
    /\ uResolution' = size
    /\ UNCHANGED <<pvars, evars, size, svars>>

\* The viewport is resized: useThree gives a new size.
Resize ==
    /\ \E s \in Sizes \ {size} : size' = s
    /\ UNCHANGED <<pvars, evars, uTime, uResolution, clock, svars>>

\* The steps of the page in a conversation that has at most
\* MaxFrameMessages messages once the outstanding request is answered.
PageStep == Next /\ Len(messages') + outstanding' <= MaxFrameMessages

FrameNext ==
    \/ PageStep
    \/ Tick
    \/ Resize

FrameSpec == Init /\ [][FrameNext]_vars

\* ------------------------------------------------ POST /api/chat
\* The bodies a request can carry: text that request.json() cannot parse,
\* the JSON value null, and objects with a prompt that is absent (Null),
\* empty, or a text.
BodyAtoms == {<<"a">>, <<" ">>, <<"\n">>}
Requests ==
    {[kind |-> "unparseable", prompt |-> Null],
     [kind |-> "null", prompt |-> Null]}
    \cup {[kind |-> "object", prompt |-> p] :
             p \in {Null} \cup TextsUpTo(BodyAtoms, MaxBodyLen)}

\* What anthropic.messages.create can do: throw, or resolve to a message
\* whose content is empty, begins with a text block, or begins with a block
\* of another type.
Completions ==
    {[kind |-> "throws", content |-> <<>>],
     [kind |-> "message", content |-> <<>>],
     [kind |-> "message", content |-> <<[type |-> "tool_use", text |-> Null]>>]}
    \cup {[kind |-> "message", content |-> <<[type |-> "text", text |-> t]>>] :
             t \in Responses \cup {<<>>}}

JsonReply(status, body) == [status |-> status, body |-> body]
PromptRequired == JsonReply(400, [error |-> <<"Prompt is required">>])
Failed == JsonReply(500, [error |-> <<"Failed to get response from Claude">>])

\* The handler without its test of the prompt.
PromptNeverMissing(p) == FALSE
\* !prompt
PromptMissing(p) == ~Truthy(p)

\* request.json() rejects on text that is not JSON, and destructuring the
\* value null throws.
ParseThrows(body) == body.kind \in {"unparseable", "null"}

\* message.content[0].type throws when content is empty.
CompletionThrows(result) == result.kind = "throws" \/ result.content = <<>>

\* POST from its start to its first return or to the call of the
\* completion service.
Receive ==
    /\ stage = "received"
    /\ IF ParseThrows(request)
       THEN /\ reply' = Failed
            /\ stage' = "replied"
            /\ calls' = calls
       ELSE IF PromptMissing(request.prompt)
       THEN /\ reply' = PromptRequired
            /\ stage' = "replied"
            /\ calls' = calls
       ELSE /\ calls' = calls + 1
            /\ stage' = "calling"
            /\ reply' = reply
    /\ UNCHANGED <<request, pvars, evars, fvars>>

\* POST from the settling of anthropic.messages.create to its return.
Complete(result) ==
    /\ stage = "calling"
    /\ stage' = "replied"
    /\ IF CompletionThrows(result)
       THEN reply' = Failed
       ELSE LET content == result.content[1]
                text == IF content.type = "text" THEN content.text ELSE <<>>
            IN  reply' = JsonReply(200, [response |-> text])
    /\ UNCHANGED <<request, calls, pvars, evars, fvars>>

Completes == \E result \in Completions : Complete(result)

ServerInit ==
    /\ Mounted
    /\ input = Null
    /\ candidate = Pending
    /\ again = Pending
    /\ NoFrames
    /\ size = InitialResolution
    /\ request \in Requests
    /\ stage = "received"
    /\ calls = 0
    /\ reply = NoReply

ServerNext ==
    \/ Receive
    \/ Completes

ServerSpec == ServerInit /\ [][ServerNext]_vars

\* ------------------------------------------- the extractor on its own
ExtractInit ==
    /\ Mounted
    /\ input \in Texts
    /\ candidate = Pending
    /\ again = Pending
    /\ NoFrames
    /\ size = InitialResolution
    /\ NoRequest

\* extractShaderCode applied to the response text.
Extract ==
    /\ candidate = Pending
    /\ candidate' = extractShaderCode(input)
    /\ UNCHANGED <<input, again, pvars, fvars, svars>>

\* The candidate fed back into the extractor, wrapped in a fence.
Reextract ==
    /\ candidate # Pending
    /\ candidate # Null
    /\ again = Pending
    /\ again' = extractShaderCode(Wrap(candidate))
    /\ UNCHANGED <<input, candidate, pvars, fvars, svars>>

ExtractNext == Extract \/ Reextract

ExtractSpec == ExtractInit /\ [][ExtractNext]_vars

\* ------------------------------------------------ claims on the extractor
\* The places where three backticks start.
FencePositions(s) == {i \in 1..Len(s) : MatchFence(s, i)}

\* Two fences that do not overlap: a fenced block.
HasFencedBlock(s) ==
    \E p \in FencePositions(s), q \in FencePositions(s) : q >= p + 3

\* Exactly one fenced block: an opening and a closing fence and no other
\* place where three backticks start.
SingleFencedBlock(s) ==
    /\ HasFencedBlock(s)
    /\ Cardinality(FencePositions(s)) = 2

\* The recognised language tag right after the opening fence, the longest
\* one that is there (any letter case); 0 units when there is none.
RecognisedTags == {<<"glsl">>, <<"frag">>, <<"frag", "ment">>}
TagLength(s, k) ==
    Max({0} \cup {Len(t) : t \in {u \in RecognisedTags : MatchesLiteral(s, k, u)}})

\* What a single fenced block holds between its tag and its closing fence.
Interior(s) ==
    LET p == Min(FencePositions(s))
        q == Max(FencePositions(s))
    IN  SubSeq(s, p + 3 + TagLength(s, p + 3), q - 1)

\* C1: for every response text containing a single fenced code block, the
\* extractor returns exactly the trimmed interior of that block, whatever
\* prose surrounds it.
C1_FencedInterior ==
    (candidate # Pending /\ SingleFencedBlock(input))
        => candidate = Trim(Interior(input))

\* C2: for every response text with no fenced block that contains both
\* 'void main()' and the output-write marker, the extractor returns the
\* entire text, trimmed.
C2_BareBody ==
    (/\ candidate # Pending
     /\ ~HasFencedBlock(input)
     /\ Includes(input, "void main()")
     /\ Includes(input, "gl_FragColor"))
        => candidate = Trim(input)

\* C2's case: a text with both markers, no fenced block and white space to
\* trim has been extracted.
C2_Witness ==
    /\ candidate # Pending
    /\ ~HasFencedBlock(input)
    /\ Includes(input, "void main()")
    /\ Includes(input, "gl_FragColor")
    /\ Trim(input) # input
    /\ candidate = Trim(input)

\* C4 as stated: whenever the extractor returned a candidate, extracting
\* from the candidate wrapped in a fence returns the candidate again.
C4_Idempotent == again # Pending => again = candidate

\* C4 amended: the same, for candidates that hold no fence themselves.
C4_IdempotentNoFence ==
    (again # Pending /\ FencePositions(candidate) = {}) => again = candidate

\* C4's case: a non-empty candidate without a fence was wrapped, extracted
\* again and came back unchanged.
C4_Witness ==
    /\ again # Pending
    /\ Truthy(candidate)
    /\ FencePositions(candidate) = {}
    /\ again = candidate

\* C11 as stated: for 'void main() { fragColor = vec4(0.0); }' the extractor
\* returns the full trimmed text.
C11_ScenarioBare ==
    (input = ScenarioBare /\ candidate # Pending)
        => candidate = Trim(ScenarioBare)

\* C11 amended: that text gives no candidate, and the same text writing to
\* gl_FragColor gives the full trimmed text.
C11_ScenarioBareGl ==
    /\ (input = ScenarioBare /\ candidate # Pending) => candidate = Null
    /\ (input = ScenarioBareGl /\ candidate # Pending)
          => candidate = Trim(ScenarioBareGl)

\* C11's case: the text writing to gl_FragColor was extracted whole.
C11_Witness ==
    /\ input = ScenarioBareGl
    /\ ~HasFencedBlock(input)
    /\ candidate = ScenarioBareGl

\* The opening fence of the first fenced block, and the first fence after
\* its language tag.
FirstOpening(s) == Min(FencePositions(s))
FirstClosing(s) ==
    Min({q \in FencePositions(s) :
            q >= FirstOpening(s) + 3 + TagLength(s, FirstOpening(s) + 3)})

\* C16: when the opening fence of the first fenced block is immediately
\* followed by glsl, frag or fragment in any letter case, the candidate is
\* exactly the trimmed text between the tag and the closing fence.
C16_TagStripped ==
    (/\ candidate # Pending
     /\ HasFencedBlock(input)
     /\ TagLength(input, FirstOpening(input) + 3) > 0)
        => candidate =
             Trim(SubSeq(input,
                         FirstOpening(input) + 3
                             + TagLength(input, FirstOpening(input) + 3),
                         FirstClosing(input) - 1))

\* ----------------------------------------------------- claims on the page
\* A step in which a reply to a request is handled.
Settling == outstanding' < outstanding

LastMessage == messages[Len(messages)]

\* C3: a response text with no fenced block that does not contain both
\* markers gives no candidate (null), and handling it leaves the active
\* shader as it was.
C3_NoCandidate ==
    [][(/\ Settling
        /\ input' # Null
        /\ ~HasFencedBlock(input')
        /\ ~(Includes(input', "void main()") /\ Includes(input', "gl_FragColor")))
          => (candidate' = Null /\ displayedShader' = displayedShader)]_vars

\* C3's case: after a shader was installed, a response with no block and
\* without both markers was handled and answered with the notice.
C3_Witness ==
    /\ input # Null
    /\ ~HasFencedBlock(input)
    /\ ~(Includes(input, "void main()") /\ Includes(input, "gl_FragColor"))
    /\ candidate = Null
    /\ messages # <<>>
    /\ LastMessage.content = MissText
    /\ displayedShader # DEFAULT_FRAGMENT_SHADER

\* C5: a submission that ends in a failed extraction or in a request failure
\* leaves the active shader as it was before.
C5_LastGoodShaderWins ==
    [][(Settling /\ candidate' \in {Pending, Null, <<>>})
          => displayedShader' = displayedShader]_vars

\* C5's case: after a shader was installed, a second submission ended in a
\* request failure and the installed shader is still the active one.
C5_Witness ==
    /\ Len(messages) = 4
    /\ candidate = Pending
    /\ error # <<>>
    /\ LastMessage.content = <<"Error: ">> \o error
    /\ ~isLoading
    /\ displayedShader # DEFAULT_FRAGMENT_SHADER

\* C6: when a newly extracted candidate fails to compile, the previously
\* active shader stays the active one and an error message is surfaced.
C6_CompileFailureKeepsShader ==
    [][(Settling /\ Truthy(candidate') /\ FailsToCompile(candidate'))
          => (displayedShader' = displayedShader /\ error' # <<>>)]_vars

\* C7: at most one request to /api/chat is outstanding at any time.
C7_SingleRequest == outstanding <= 1

\* C7's case: a second request is outstanding and the submit controls are
\* rendered disabled.
C7_Witness ==
    /\ outstanding = 1
    /\ Len(messages) = 3
    /\ isLoading
    /\ renderedLoading

\* C8: a submit whose prompt is empty after trimming sends no request and
\* changes no state.
C8_EmptyInputIgnored ==
    [][(Trim(prompt) = <<>> /\ (handleKeyDown \/ FormSubmit))
          => (UNCHANGED state /\ outstanding' = outstanding)]_vars

\* C8's case: Enter was pressed on a prompt of blanks, with messages in the
\* list, and handleSubmit returned early.
C8_Witness ==
    /\ ignored
    /\ prompt # <<>>
    /\ Trim(prompt) = <<>>
    /\ ~renderedLoading
    /\ messages # <<>>

\* A request that failed: the network failed, the status was no success, or
\* the body could not be parsed or lacks the response.
IsFailure(outcome) == outcome.kind # "ok" \/ outcome.body = Null

\* C9: every failure of a request, whatever its cause, appends exactly one
\* assistant error message and sets error to a non-empty message.
C9_SingleFailureKind ==
    [][\A outcome \in Outcomes :
          (IsFailure(outcome) /\ Settle(outcome))
            => (/\ error' # <<>>
                /\ error' # Null
                /\ messages' = Append(messages,
                       AssistantMessage(<<"Error: ">> \o error', Null)))]_vars

\* C9's case: a request came back with a status that is no success and a
\* body without an error field, and was reported.
C9_Witness ==
    /\ messages # <<>>
    /\ error = <<"Something went wrong">>
    /\ LastMessage = AssistantMessage(<<"Error: ">> \o error, Null)
    /\ ~isLoading

\* What the extractor gives on the replies the page is run against.
ExtractedResponses == {extractShaderCode(r) : r \in Responses}

\* C10: the active shader is always a non-empty text: the built-in default
\* or a candidate the extractor returned.
C10_ActiveProgram ==
    /\ displayedShader # <<>>
    /\ displayedShader # Null
    /\ \/ displayedShader = DEFAULT_FRAGMENT_SHADER
       \/ displayedShader \in ExtractedResponses

\* C10's case: a candidate has replaced the default shader.
C10_Witness ==
    /\ displayedShader # DEFAULT_FRAGMENT_SHADER
    /\ displayedShader = candidate
    /\ Truthy(displayedShader)

\* The accepted submissions so far: each one appended one user message.
AcceptedSubmissions ==
    Cardinality({i \in DOMAIN messages : messages[i].role = "user"})

\* C12: the page never retries: the number of requests issued always equals
\* the number of accepted submissions.
C12_NoRetry == issued = AcceptedSubmissions

\* C12's case: two submissions were accepted, the second request failed and
\* was answered by an error message, and two requests were issued.
C12_Witness ==
    /\ issued = 2
    /\ outstanding = 0
    /\ error # <<>>
    /\ LastMessage = AssistantMessage(<<"Error: ">> \o error, Null)

\* C13: a response with a candidate that arrives after the user moved on
\* (to model mode, to the code view, or by uploading a model) is applied all
\* the same: the candidate becomes shaderCode and displayedShader and the
\* page is put in shader mode, visual view.
C13_StaleResponseApplied ==
    [][(Settling /\ movedOn /\ candidate' # Pending /\ Truthy(candidate'))
          => (/\ shaderCode' = candidate'
              /\ displayedShader' = candidate'
              /\ mode' = "shader"
              /\ view' = "visual")]_vars

\* C13's case: the user moved on while the request was outstanding, a model
\* is loaded, and the candidate of the response was installed.
C13_Witness ==
    /\ movedOn
    /\ outstanding = 0
    /\ modelName # Null
    /\ candidate # Pending
    /\ Truthy(candidate)
    /\ displayedShader = candidate
    /\ LastMessage = AssistantMessage(FoundText, candidate)
    /\ mode = "shader"
    /\ view = "visual"

\* C18: the code shown by the code view is the code the canvas renders:
\* shaderCode equals displayedShader in every reachable state.
C18_CodeIsDisplayed == shaderCode = displayedShader

\* C18's case: a candidate was installed and the code view is open.
C18_Witness ==
    /\ shaderCode = displayedShader
    /\ shaderCode # DEFAULT_FRAGMENT_SHADER
    /\ mode = "shader"
    /\ view = "code"

\* C17: when every issued request settles, isLoading always returns to
\* false, and the submit controls, disabled while the rendered isLoading is
\* true, are always enabled again.
C17_LoadingEnds ==
    /\ isLoading ~> ~isLoading
    /\ renderedLoading ~> ~renderedLoading

\* C17's case: a request was answered without a candidate and the submit
\* controls are enabled again.
C17_Witness ==
    /\ issued = 1
    /\ outstanding = 0
    /\ LastMessage = AssistantMessage(MissText, Null)
    /\ ~isLoading
    /\ ~renderedLoading

\* C15: the frame loop does not depend on the network: whenever the shader
\* canvas is mounted a frame tick is enabled, isLoading or not, and a tick
\* only rewrites uTime and uResolution, from the clock and the viewport
\* size, leaving isLoading, messages and displayedShader (and the rest of
\* the page) unchanged.
C15_FrameLoopIndependent ==
    /\ [](CanvasMounted => ENABLED Tick)
    /\ [][Tick => (/\ uTime' = clock'
                   /\ uResolution' = size
                   /\ UNCHANGED <<isLoading, messages, displayedShader>>
                   /\ UNCHANGED <<pvars, evars, size>>)]_vars

\* C15's case: the canvas was mounted while the request was outstanding
\* (the user had moved on and came back), and a tick has since written the
\* clock and the resized viewport into the uniforms, with isLoading true.
C15_Witness ==
    /\ isLoading
    /\ outstanding = 1
    /\ movedOn
    /\ CanvasMounted
    /\ uTime > 0
    /\ uTime = clock
    /\ size # InitialResolution
    /\ uResolution = size

\* A JSON string, as opposed to an absent field.
IsString(x) == x # Null

Success(r) ==
    /\ r.status \in 200..299
    /\ DOMAIN r.body = {"response"}
    /\ IsString(r.body.response)

Failure(r) ==
    /\ r.status \notin 200..299
    /\ DOMAIN r.body = {"error"}
    /\ IsString(r.body.error)

=============================================================================
